---- MODULE Spec2Model ----
(***************************************************************************)
(* GrantForgeUSA web client: the state controller of App.jsx               *)
(* (src/unnamed/part_001).  The component state (useState cells), the      *)
(* asynchronous handlers findGrants and createDraft suspended at their     *)
(* network calls, the export of the active draft, and the payment modal.   *)
(* One step of the model is one run of JavaScript to its next await (or to *)
(* its end): a click handler up to the fetch it issues, or the             *)
(* continuation that a response or a failure resumes.                      *)
(***************************************************************************)
EXTENDS Integers, Sequences, FiniteSets, Bags, TLC

VARIABLES
    org,            \* useState("")    : organization input
    keywords,       \* useState("")    : keywords input
    intakeId,       \* useState(null)  : intake reference
    grants,         \* useState([])    : grant list
    draft,          \* useState(null)  : active draft
    loading,        \* useState(false) : loading flag
    error,          \* useState("")    : error string
    payFor,         \* useState(null)  : payment modal target {id, title}
    paidDraftIds,   \* useState(new Set()) : paid markers
    inflight,       \* bag of handler invocations suspended at an await api(...)
    saved,          \* the document last handed to doc.save, null before the first export
    \* the earlier, minimal App.jsx (src/unnamed/part_000), a component of its own
    minOrg,         \* useState("") : org
    kw,             \* useState("") : kw
    status,         \* useState("") : status
    results,        \* useState([]) : results
    pending         \* bag of its handlers suspended at an await

\* the state of the minimal App
minvars == <<minOrg, kw, status, results, pending>>

vars == <<org, keywords, intakeId, grants, draft, loading, error, payFor,
          paidDraftIds, inflight, saved, minvars>>

-----------------------------------------------------------------------------
(* Bound of the model *)

\* handler invocations suspended at a network call at the same time
MaxOps == 2

-----------------------------------------------------------------------------
(* JavaScript values *)

\* a property that is absent reads as undefined
Undefined == "undefined"
\* null where a string is expected (intakeId)
Null == "null"
\* null where an object is expected (draft, payFor)
NullObj == [isNull |-> TRUE]

\* ToBoolean on the string-or-absent values of the model
Truthy(v) == v \notin {Undefined, Null, ""}

\* a || b
Or(a, b) == IF Truthy(a) THEN a ELSE b

\* an array-valued property of a response: absent, or an array (always truthy)
Absent == [has |-> FALSE, val |-> <<>>]
Present(l) == [has |-> TRUE, val |-> l]

-----------------------------------------------------------------------------
(* Inputs: what the user types and what the backend answers *)

Orgs == {"", "Acme"}
Keywords == {"", "stem"}

G1 == [id |-> "g1", title |-> "STEM Fund", agency |-> "NSF", url |-> "https://nsf.example/g1"]
G2 == [id |-> Undefined, title |-> "Arts Fund", agency |-> Undefined, url |-> Undefined]
GrantPool == {G1, G2}

\* bodies of a successful /questionnaire response
QuestionnaireResponses == [id : {Undefined, "", "i1"}, intake_id : {Undefined, "i2"}]

\* bodies of a successful /find-grants response: either list absent, empty or not
FindGrantsResponses == [top : {Absent, Present(<<>>), Present(<<G1>>), Present(<<G2, G1>>)},
                        items : {Absent, Present(<<G2>>)}]

\* bodies of a successful /draft response
DraftResponses == [draft_id : {Undefined, "", "d1"}, id : {Undefined, "d2"},
                   preview : {Undefined, "Dear Review Committee"}]

\* non-success HTTP statuses the backend answers with
FailStatuses == {"500"}

\* messages of the errors fetch() or res.json() reject with (one without a
\* message, so that the handlers' fallback text shows)
TransportMessages == {""}

-----------------------------------------------------------------------------
(* api(path, body): the error it throws on a non-success status *)

ApiError(path, st) == "API " \o path \o " failed (" \o st \o ")"

\* every message an awaited api(path, ...) can throw
Thrown(path) == {ApiError(path, s) : s \in FailStatuses} \cup TransportMessages

-----------------------------------------------------------------------------
(* The bag of suspended invocations *)

One(op) == SetToBag({op})
InFlight == BagToSet(inflight)
CanStart == BagCardinality(inflight) < MaxOps

\* the number of calls to path suspended in the bag b
CallsTo(b, path) ==
    BagCardinality([op \in {o \in BagToSet(b) : o.path = path} |-> CopiesIn(op, b)])

\* the searches suspended at one of their two calls
SearchesInFlight == {op \in InFlight : op.fn = "findGrants"}
NumSearchesInFlight ==
    BagCardinality([op \in SearchesInFlight |-> CopiesIn(op, inflight)])


-----------------------------------------------------------------------------
Init ==
    /\ org = ""
    /\ keywords = ""
    /\ intakeId = Null
    /\ grants = <<>>
    /\ draft = NullObj
    /\ loading = FALSE
    /\ error = ""
    /\ payFor = NullObj
    /\ paidDraftIds = {}
    /\ inflight = EmptyBag
    /\ saved = NullObj
    /\ minOrg = ""
    /\ kw = ""
    /\ status = ""
    /\ results = <<>>
    /\ pending = EmptyBag

(* onChange of the two inputs *)
SetOrg(v) ==
    /\ v # org
    /\ org' = v
    /\ UNCHANGED <<keywords, intakeId, grants, draft, loading, error, payFor,
                   paidDraftIds, inflight, saved, minvars>>

SetKeywords(v) ==
    /\ v # keywords
    /\ keywords' = v
    /\ UNCHANGED <<org, intakeId, grants, draft, loading, error, payFor,
                   paidDraftIds, inflight, saved, minvars>>

-----------------------------------------------------------------------------
(* findGrants *)

\* the invocation suspended at await api("/questionnaire", ...)
QuestionnaireCall(o, k) ==
    [fn |-> "findGrants", path |-> "/questionnaire",
     body |-> [name |-> Or(o, "Your Organization"), keywords |-> Or(k, "grants")],
     keywords |-> k]

\* the invocation suspended at await api("/find-grants", ...)
FindGrantsCall(k) ==
    [fn |-> "findGrants", path |-> "/find-grants",
     body |-> [keywords |-> k],
     keywords |-> k]

\* FindGrantsStart without its setDraft(null)
FindGrantsStartKeepsDraft ==
    /\ ~loading
    /\ CanStart
    /\ error' = ""
    /\ grants' = <<>>
    /\ loading' = TRUE
    /\ inflight' = inflight (+) One(QuestionnaireCall(org, keywords))
    /\ UNCHANGED <<org, keywords, intakeId, draft, payFor, paidDraftIds, saved, minvars>>

\* click on Find Grants (disabled while loading): runs to the first await
FindGrantsStart ==
    /\ ~loading
    /\ CanStart
    /\ error' = ""
    /\ draft' = NullObj
    /\ grants' = <<>>
    /\ loading' = TRUE
    /\ inflight' = inflight (+) One(QuestionnaireCall(org, keywords))
    /\ UNCHANGED <<org, keywords, intakeId, payFor, paidDraftIds, saved, minvars>>

\* PickIntakeId without its last alternative: q.id || q.intake_id
PickIntakeIdNoNull(q) == Or(q.id, q.intake_id)

\* q.id || q.intake_id || null
PickIntakeId(q) == Or(Or(q.id, q.intake_id), Null)

\* the questionnaire answered: store the intake id, issue /find-grants
QuestionnaireOk(op, q) ==
    /\ op \in InFlight
    /\ op.path = "/questionnaire"
    /\ intakeId' = PickIntakeId(q)
    /\ inflight' = (inflight (-) One(op)) (+) One(FindGrantsCall(op.keywords))
    /\ UNCHANGED <<org, keywords, grants, draft, loading, error, payFor, paidDraftIds, saved, minvars>>

\* PickGrants trying its candidates in the other order: g.items || g.top || []
PickGrantsItemsFirst(g) == IF g.items.has THEN g.items.val
                           ELSE IF g.top.has THEN g.top.val
                           ELSE <<>>

\* g.top || g.items || []
PickGrants(g) == IF g.top.has THEN g.top.val
                 ELSE IF g.items.has THEN g.items.val
                 ELSE <<>>

\* FindGrantsOk with a staleness check: the answer of a search is dropped
\* while a later search is still suspended
FindGrantsOkLatestOnly(op, g) ==
    /\ op \in InFlight
    /\ op.path = "/find-grants"
    /\ grants' = IF NumSearchesInFlight > 1 THEN grants ELSE PickGrants(g)
    /\ loading' = FALSE
    /\ inflight' = inflight (-) One(op)
    /\ UNCHANGED <<org, keywords, intakeId, draft, error, payFor, paidDraftIds, saved, minvars>>

\* /find-grants answered: apply the list, then finally
FindGrantsOk(op, g) ==
    /\ op \in InFlight
    /\ op.path = "/find-grants"
    /\ grants' = PickGrants(g)
    /\ loading' = FALSE
    /\ inflight' = inflight (-) One(op)
    /\ UNCHANGED <<org, keywords, intakeId, draft, error, payFor, paidDraftIds, saved, minvars>>

\* FindGrantsFail going on to /find-grants after a failed questionnaire
FindGrantsFailGoesOn(op, msg) ==
    /\ op \in InFlight
    /\ op.fn = "findGrants"
    /\ msg \in Thrown(op.path)
    /\ error' = Or(msg, "Failed to fetch")
    /\ loading' = (op.path = "/questionnaire" /\ loading)
    /\ inflight' = IF op.path = "/questionnaire"
                   THEN (inflight (-) One(op)) (+) One(FindGrantsCall(op.keywords))
                   ELSE inflight (-) One(op)
    /\ UNCHANGED <<org, keywords, intakeId, grants, draft, payFor, paidDraftIds, saved, minvars>>

\* FindGrantsFail without the finally block: loading stays as it is
FindGrantsFailKeepsLoading(op, msg) ==
    /\ op \in InFlight
    /\ op.fn = "findGrants"
    /\ msg \in Thrown(op.path)
    /\ error' = Or(msg, "Failed to fetch")
    /\ inflight' = inflight (-) One(op)
    /\ UNCHANGED <<org, keywords, intakeId, grants, draft, loading, payFor, paidDraftIds,
                   saved, minvars>>

\* either call of findGrants threw: catch, then finally
FindGrantsFail(op, msg) ==
    /\ op \in InFlight
    /\ op.fn = "findGrants"
    /\ msg \in Thrown(op.path)
    /\ error' = Or(msg, "Failed to fetch")
    /\ loading' = FALSE
    /\ inflight' = inflight (-) One(op)
    /\ UNCHANGED <<org, keywords, intakeId, grants, draft, payFor, paidDraftIds, saved, minvars>>

-----------------------------------------------------------------------------
(* createDraft *)

\* the invocation suspended at await api("/draft", ...), g its argument
DraftCall(g, intake, o) ==
    [fn |-> "createDraft", path |-> "/draft",
     body |-> [intake_id |-> intake,
               organization |-> Or(o, "Your Organization"),
               grant |-> [id |-> g.id, title |-> g.title, agency |-> g.agency,
                          url |-> Or(g.url, "https://example.com")]],
     g |-> g]

\* the grants the list renders a Draft and a Payment button for
Listed == {grants[i] : i \in 1..Len(grants)}

\* click on Draft of a listed grant: runs to the await
CreateDraftStart(g) ==
    /\ g \in Listed
    /\ CanStart
    /\ error' = ""
    /\ loading' = TRUE
    /\ inflight' = inflight (+) One(DraftCall(g, intakeId, org))
    /\ UNCHANGED <<org, keywords, intakeId, grants, draft, payFor, paidDraftIds, saved, minvars>>

\* MakeDraft attaching the first grant of the list now held instead of its argument
MakeDraftFromList(d, g) ==
    [id |-> Or(d.draft_id, d.id), preview |-> Or(d.preview, ""),
     grant |-> IF grants # <<>> THEN grants[1] ELSE g]

\* { id: d.draft_id || d.id, preview: d.preview || "", grant: g }
MakeDraft(d, g) ==
    [id |-> Or(d.draft_id, d.id), preview |-> Or(d.preview, ""), grant |-> g]

\* /draft answered: install the draft, then finally
CreateDraftOk(op, d) ==
    /\ op \in InFlight
    /\ op.path = "/draft"
    /\ draft' = MakeDraft(d, op.g)
    /\ loading' = FALSE
    /\ inflight' = inflight (-) One(op)
    /\ UNCHANGED <<org, keywords, intakeId, grants, error, payFor, paidDraftIds, saved, minvars>>

\* CreateDraftFail with a setDraft(null) in its catch
CreateDraftFailResets(op, msg) ==
    /\ op \in InFlight
    /\ op.fn = "createDraft"
    /\ msg \in Thrown(op.path)
    /\ error' = Or(msg, "Failed to create draft")
    /\ draft' = NullObj
    /\ loading' = FALSE
    /\ inflight' = inflight (-) One(op)
    /\ UNCHANGED <<org, keywords, intakeId, grants, payFor, paidDraftIds, saved, minvars>>

\* api("/draft") threw: catch, then finally
CreateDraftFail(op, msg) ==
    /\ op \in InFlight
    /\ op.fn = "createDraft"
    /\ msg \in Thrown(op.path)
    /\ error' = Or(msg, "Failed to create draft")
    /\ loading' = FALSE
    /\ inflight' = inflight (-) One(op)
    /\ UNCHANGED <<org, keywords, intakeId, grants, draft, payFor, paidDraftIds, saved, minvars>>

-----------------------------------------------------------------------------
(* exportPDF *)

\* draft.grant?.title || "Grant Opportunity"
ExportTitle(d) == Or(d.grant.title, "Grant Opportunity")

\* the placeholder letter with its substitutions of orgName and title
PlaceholderLetter(orgName, title) ==
    "Dear Review Committee,\n\nThis is a generated placeholder draft for "
    \o orgName \o " applying to: " \o title
    \o ".\n\n[Insert problem statement, goals, outcomes, budget summary.]"
    \o "\n\nSincerely,\n" \o orgName

\* ExportBody substituting the org cell as typed, without its default
ExportBodyRawOrg(d, o) ==
    IF Truthy(d.preview) THEN d.preview ELSE PlaceholderLetter(o, ExportTitle(d))

\* the text written below the heading: the preview, or the placeholder letter
ExportBody(d, o) ==
    IF Truthy(d.preview)
    THEN d.preview
    ELSE PlaceholderLetter(Or(o, "Your Organization"), ExportTitle(d))

\* .replace(/\s+/g, "_") on the titles of the model (none exceeds 40 characters)
Underscored(t) == CASE t = "STEM Fund" -> "STEM_Fund"
                    [] t = "Arts Fund" -> "Arts_Fund"
                    [] t = "Grant Opportunity" -> "Grant_Opportunity"
                    [] OTHER -> t

\* GFUSA_<title>_<id>.pdf (no draft id of the model exceeds 8 characters)
ExportName(d) == "GFUSA_" \o Underscored(Or(ExportTitle(d), "draft")) \o "_"
                 \o Or(d.id, "doc") \o ".pdf"

\* Download PDF: returns at once without a draft, else saves the document
ExportPDF ==
    /\ saved' = IF draft = NullObj THEN saved
                ELSE [filename |-> ExportName(draft), body |-> ExportBody(draft, org)]
    /\ UNCHANGED <<org, keywords, intakeId, grants, draft, loading, error, payFor,
                   paidDraftIds, inflight, minvars>>

-----------------------------------------------------------------------------
(* payment modal *)

\* what openPay reads of its argument: a listed grant has no .grant
GrantTarget(g) == [id |-> g.id, title |-> g.title,
                   grantId |-> Undefined, grantTitle |-> Undefined]
DraftTarget(d) == [id |-> d.id, title |-> Undefined,
                   grantId |-> d.grant.id, grantTitle |-> d.grant.title]

\* the objects a Payment button passes to openPay
PayTargets == {GrantTarget(g) : g \in Listed}
              \cup (IF draft = NullObj THEN {} ELSE {DraftTarget(draft)})

\* id = x.id || x.grant?.id || "unknown"; title = x.title || x.grant?.title || "Draft"
PayItem(t) == [id |-> Or(Or(t.id, t.grantId), "unknown"),
               title |-> Or(Or(t.title, t.grantTitle), "Draft")]

\* the list's rendering of a grant: id = g.id || g.title, isPaid = paidDraftIds.has(id)
ListId(g) == Or(g.id, g.title)
IsPaid(g) == ListId(g) \in paidDraftIds

OpenPay(t) ==
    /\ t \in PayTargets
    /\ payFor' = PayItem(t)
    /\ UNCHANGED <<org, keywords, intakeId, grants, draft, loading, error,
                   paidDraftIds, inflight, saved, minvars>>

\* MarkPaid adding to a new Set() instead of a copy of the markers
MarkPaidFresh(paid, p) == IF p # NullObj /\ Truthy(p.id) THEN {p.id} ELSE paid

\* if (payFor?.id) add it to a copy of the set
MarkPaid(paid, p) == IF p # NullObj /\ Truthy(p.id) THEN paid \cup {p.id} ELSE paid

\* Mark as Paid (rendered while payFor is set)
ConfirmPay ==
    /\ payFor # NullObj
    /\ paidDraftIds' = MarkPaid(paidDraftIds, payFor)
    /\ payFor' = NullObj
    /\ UNCHANGED <<org, keywords, intakeId, grants, draft, loading, error, inflight, saved, minvars>>

\* ClosePay marking the target paid as Mark as Paid does
ClosePayMarks ==
    /\ payFor # NullObj
    /\ paidDraftIds' = MarkPaid(paidDraftIds, payFor)
    /\ payFor' = NullObj
    /\ UNCHANGED <<org, keywords, intakeId, grants, draft, loading, error, inflight, saved, minvars>>

\* Cancel, the backdrop and the x button: setPayFor(null)
ClosePay ==
    /\ payFor # NullObj
    /\ payFor' = NullObj
    /\ UNCHANGED <<org, keywords, intakeId, grants, draft, loading, error,
                   paidDraftIds, inflight, saved, minvars>>

-----------------------------------------------------------------------------
(* The minimal App (src/unnamed/part_000) and its fetcher: three buttons,  *)
(* none disabled, each handler one call.  The ellipsis and the bullet of   *)
(* its status texts are written "..." and "*".                             *)

\* the state of the fuller App, which the minimal one leaves alone
appvars == <<org, keywords, intakeId, grants, draft, loading, error, payFor,
             paidDraftIds, inflight, saved>>

\* rows of a shortlist answer
M1 == [title |-> "STEM Fund", amount |-> "$5,000", deadline |-> "2026-01-31", fit |-> "high"]
M2 == [title |-> "Arts Fund", amount |-> "$1,000", deadline |-> "2026-03-01", fit |-> "low"]

\* bodies of a successful shortlist answer: data.results absent, empty or not
ShortlistResponses == [results : {Absent, Present(<<>>), Present(<<M2>>),
                                  Present(<<M1, M2, M1>>)}]

\* bodies of a successful health answer
HealthResponses == [frontendUrl : {Undefined, "https://app.example"}]

MinCanStart == BagCardinality(pending) < MaxOps
Pending == BagToSet(pending)

MinSetOrg(v) ==
    /\ v # minOrg
    /\ minOrg' = v
    /\ UNCHANGED <<kw, status, results, pending, appvars>>

MinSetKw(v) ==
    /\ v # kw
    /\ kw' = v
    /\ UNCHANGED <<minOrg, status, results, pending, appvars>>

\* fetcher findGrants(org, keywords): POST to ENDPOINTS.shortlist
ShortlistCall(o, k) ==
    [fn |-> "handleFind", url |-> "/questionnaire",
     body |-> [organization |-> o, keywords |-> k]]

\* click on Find Grants: runs to the await
HandleFindStart ==
    /\ MinCanStart
    /\ status' = "Finding grants..."
    /\ results' = <<>>
    /\ pending' = pending (+) One(ShortlistCall(Or(minOrg, "Your Organization"),
                                                 Or(kw, "community")))
    /\ UNCHANGED <<minOrg, kw, appvars>>

\* data.results || []
PickResults(data) == IF data.results.has THEN data.results.val ELSE <<>>

\* FoundCount reading the results cell of the handler's closure, which
\* setResults([]) has just emptied, instead of the answer
FoundCountOfState(data) == Len(results)

\* data.results?.length || 0
FoundCount(data) == IF data.results.has THEN Len(data.results.val) ELSE 0

\* the shortlist answered: apply the rows and report their number
HandleFindOk(op, data) ==
    /\ op \in Pending
    /\ op.fn = "handleFind"
    /\ results' = PickResults(data)
    /\ status' = "Found " \o ToString(FoundCount(data)) \o " item(s)"
    /\ pending' = pending (-) One(op)
    /\ UNCHANGED <<minOrg, kw, appvars>>

\* the shortlist call threw (Shortlist <status>, or a transport failure)
HandleFindFail(op) ==
    /\ op \in Pending
    /\ op.fn = "handleFind"
    /\ status' = "Error: Failed to fetch"
    /\ pending' = pending (-) One(op)
    /\ UNCHANGED <<minOrg, kw, results, appvars>>

\* click on Check Health
HandleHealthStart ==
    /\ MinCanStart
    /\ status' = "Checking backend..."
    /\ pending' = pending (+) One([fn |-> "handleHealth", url |-> "/get/health"])
    /\ UNCHANGED <<minOrg, kw, results, appvars>>

\* the health call answered; the time of day shown is written <time>
HandleHealthOk(op, h) ==
    /\ op \in Pending
    /\ op.fn = "handleHealth"
    /\ status' = "Backend OK * " \o Or(h.frontendUrl, "") \o " * <time>"
    /\ pending' = pending (-) One(op)
    /\ UNCHANGED <<minOrg, kw, results, appvars>>

HandleHealthFail(op) ==
    /\ op \in Pending
    /\ op.fn = "handleHealth"
    /\ status' = "Health check failed"
    /\ pending' = pending (-) One(op)
    /\ UNCHANGED <<minOrg, kw, results, appvars>>

\* fetcher getDraft(org, topic): POST to ENDPOINTS.draft
OutlineCall(o, k) ==
    [fn |-> "handleDraft", url |-> "/draft",
     body |-> [organization |-> o, topic |-> k]]

\* click on Draft
HandleDraftStart ==
    /\ MinCanStart
    /\ status' = "Making outline..."
    /\ pending' = pending (+) One(OutlineCall(Or(minOrg, "Your Organization"),
                                               Or(kw, "community")))
    /\ UNCHANGED <<minOrg, kw, results, appvars>>

\* the draft call answered: alert, log, report
HandleDraftOk(op) ==
    /\ op \in Pending
    /\ op.fn = "handleDraft"
    /\ status' = "Outline generated"
    /\ pending' = pending (-) One(op)
    /\ UNCHANGED <<minOrg, kw, results, appvars>>

HandleDraftFail(op) ==
    /\ op \in Pending
    /\ op.fn = "handleDraft"
    /\ status' = "Draft error"
    /\ pending' = pending (-) One(op)
    /\ UNCHANGED <<minOrg, kw, results, appvars>>

NextMin ==
    \/ \E v \in Orgs : MinSetOrg(v)
    \/ \E v \in Keywords : MinSetKw(v)
    \/ HandleFindStart
    \/ \E op \in Pending, data \in ShortlistResponses : HandleFindOk(op, data)
    \/ \E op \in Pending : HandleFindFail(op)
    \/ HandleHealthStart
    \/ \E op \in Pending, h \in HealthResponses : HandleHealthOk(op, h)
    \/ \E op \in Pending : HandleHealthFail(op)
    \/ HandleDraftStart
    \/ \E op \in Pending : HandleDraftOk(op)
    \/ \E op \in Pending : HandleDraftFail(op)

SpecMin == Init /\ [][NextMin]_vars

-----------------------------------------------------------------------------
(* Typing into the form *)
Form ==
    \/ \E v \in Orgs : SetOrg(v)
    \/ \E v \in Keywords : SetKeywords(v)

(* findGrants and createDraft, the backend answering from the sets given:   *)
(* qs, gs, ds the bodies of its successful answers, ms the messages thrown *)
Requests(qs, gs, ds, ms) ==
    \/ FindGrantsStart
    \/ \E op \in InFlight, q \in qs : QuestionnaireOk(op, q)
    \/ \E op \in InFlight, g \in gs : FindGrantsOk(op, g)
    \/ \E op \in InFlight, msg \in ms : FindGrantsFail(op, msg)
    \/ \E g \in GrantPool : CreateDraftStart(g)
    \/ \E op \in InFlight, d \in ds : CreateDraftOk(op, d)
    \/ \E op \in InFlight, msg \in ms : CreateDraftFail(op, msg)

AllThrown == Thrown("/questionnaire") \cup Thrown("/find-grants") \cup Thrown("/draft")

\* the answers that differ in what the handlers store of them: an intake id or
\* none, a draft id or none
PlainQuestionnaireResponses ==
    {q \in QuestionnaireResponses : q.id # "" /\ q.intake_id = Undefined}
PlainDraftResponses ==
    {d \in DraftResponses : d.draft_id # "" /\ d.id = Undefined /\ d.preview = Undefined}

(* The request orchestration: the form, findGrants and createDraft.  The   *)
(* export and the payment modal write only saved, payFor and paidDraftIds, *)
(* which no action here reads.                                             *)
Next ==
    \/ Form
    \/ Requests(PlainQuestionnaireResponses, FindGrantsResponses, PlainDraftResponses,
                AllThrown)

Spec == Init /\ [][Next]_vars

(* findGrants and createDraft with the form left as it starts, every      *)
(* awaited call eventually answered or failed: fetch settles its promise   *)
(* either way.                                                             *)
NextAnswered ==
    Requests(PlainQuestionnaireResponses, FindGrantsResponses, PlainDraftResponses,
             AllThrown)

\* a step in which an awaited call is answered or fails
Answered ==
    /\ NextAnswered
    /\ inflight' # inflight
    /\ BagCardinality(inflight') <= BagCardinality(inflight)

SpecAnswered == Init /\ [][NextAnswered]_vars /\ WF_vars(Answered)

(* The payment modal and the export next to the requests, which change     *)
(* what the modal reads (the grant list and the draft).  The modal reads   *)
(* neither the form nor the intake reference nor the error, so the form    *)
(* stays as it starts and the backend answers from small sets: no intake   *)
(* id, the grant list under either field, a draft with or without an id,   *)
(* a non-success status.                                                   *)
NextPay ==
    \/ Requests({q \in PlainQuestionnaireResponses : q.id = Undefined},
                {g \in FindGrantsResponses : g.top \in {Absent, Present(<<G2, G1>>)}},
                PlainDraftResponses,
                {ApiError(p, s) : p \in {"/find-grants", "/draft"}, s \in FailStatuses})
    \/ ExportPDF
    \/ \E t \in PayTargets : OpenPay(t)
    \/ ConfirmPay
    \/ ClosePay

SpecPay == Init /\ [][NextPay]_vars

(* The reading of the answers: findGrants and createDraft with every      *)
(* combination of the candidate fields absent, empty or set, the form left *)
(* as it starts.                                                           *)
NextFields ==
    Requests(QuestionnaireResponses, FindGrantsResponses,
             {d \in DraftResponses : d.preview = Undefined},
             {ApiError(p, s) : p \in {"/find-grants", "/draft"}, s \in FailStatuses})

SpecFields == Init /\ [][NextFields]_vars

(* The export: the organization typed, drafts with and without a preview   *)
(* of either grant, and the Download PDF button.                           *)
NextExport ==
    \/ \E v \in Orgs : SetOrg(v)
    \/ Requests({q \in PlainQuestionnaireResponses : q.id = Undefined},
                {g \in FindGrantsResponses : g.top = Present(<<G2, G1>>) /\ g.items = Absent},
                {d \in DraftResponses : d.draft_id = "d1" /\ d.id = Undefined},
                {ApiError(p, s) : p \in {"/find-grants", "/draft"}, s \in FailStatuses})
    \/ ExportPDF

SpecExport == Init /\ [][NextExport]_vars

-----------------------------------------------------------------------------
(* Properties *)

\* C1: when a search completes successfully the grant list is the list of the
\* server's answer, in its order; when a search completes with a failure, at
\* either call, the grant list is empty and there is no active draft.
C1_SearchOutcome ==
    [][ /\ \A op \in InFlight, g \in FindGrantsResponses :
              FindGrantsOk(op, g) =>
                  grants' = (IF g.top.has THEN g.top.val
                             ELSE IF g.items.has THEN g.items.val ELSE <<>>)
        /\ \A op \in InFlight, msg \in AllThrown :
              FindGrantsFail(op, msg) => grants' = <<>> /\ draft' = NullObj ]_vars

\* C2: whenever there is an active draft, its grant is one of the grants of
\* the list held in state.
C2_DraftGrantListed == draft # NullObj => draft.grant \in Listed

\* C3: two searches started from the Find Grants button never overlap.
C3_OneSearchAtATime == NumSearchesInFlight <= 1

\* C4: a call of a search never carries an empty organization or empty
\* keywords: a search started with empty keywords sends "grants" (or
\* "community") in both of its calls, one started with an empty organization
\* sends "Your Organization".
C4_DefaultsInEveryCall ==
    \A op \in SearchesInFlight :
        /\ op.body.keywords # ""
        /\ op.keywords = "" => op.body.keywords \in {"grants", "community"}
        /\ op.path = "/questionnaire" => op.body.name # ""

\* C5: a createDraft started for grant G that completes successfully installs
\* a draft whose grant is exactly G, whatever the operations it overlapped.
C5_DraftKeepsItsGrant ==
    [][ \A op \in InFlight, d \in DraftResponses :
            CreateDraftOk(op, d) => draft' # NullObj /\ draft'.grant = op.g ]_vars

\* C5 witness: a draft installed for a grant that searches started meanwhile
\* have removed from the list.
C5_Witness == draft # NullObj /\ draft.grant \notin Listed

\* C6: the step that starts a search leaves the grant list empty and the draft
\* unset in the very state in which its first call is in flight.
C6_StartClears ==
    [][ FindGrantsStart =>
            /\ grants' = <<>>
            /\ draft' = NullObj
            /\ \E op \in BagToSet(inflight') :
                  /\ op.path = "/questionnaire"
                  /\ CopiesIn(op, inflight') = CopiesIn(op, inflight) + 1 ]_vars

\* C6 witness: a search waits for its questionnaire call, started after an
\* earlier search had stored an intake id, with nothing listed and no draft.
C6_Witness ==
    /\ \E op \in InFlight : op.path = "/questionnaire"
    /\ intakeId # Null
    /\ grants = <<>>
    /\ draft = NullObj

\* C7: opening the payment modal on a target with no id and no embedded grant
\* id makes "unknown" the payment target, confirming adds the target's id to
\* the paid markers, and no step of any operation removes a marker.
C7_UnknownAndMonotonic ==
    [][ /\ \A t \in PayTargets :
              OpenPay(t) /\ ~Truthy(t.id) /\ ~Truthy(t.grantId) => payFor'.id = "unknown"
        /\ ConfirmPay => payFor.id \in paidDraftIds'
        /\ paidDraftIds \subseteq paidDraftIds' ]_vars

\* C7 witness: "unknown" was marked paid, another marker was added, and a
\* later search has emptied the list.
C7_Witness ==
    /\ "unknown" \in paidDraftIds
    /\ Cardinality(paidDraftIds) >= 2
    /\ payFor = NullObj
    /\ loading
    /\ grants = <<>>

\* C8: a search applies nothing of its answers before both of its calls have
\* succeeded: the answer to the questionnaire alone changes no data state, so
\* that a search failing afterwards leaves the intake reference as it was.
C8_ReadThenApply ==
    [][ \A op \in InFlight, q \in QuestionnaireResponses :
            QuestionnaireOk(op, q) => UNCHANGED <<intakeId, grants, draft>> ]_vars

\* C9: a createDraft that fails leaves the draft, the grant list and the
\* intake reference as they are and sets the error to the failure's message
\* (the fallback text when the failure has none).
C9_DraftFailure ==
    [][ \A op \in InFlight, msg \in AllThrown :
            CreateDraftFail(op, msg) =>
                /\ UNCHANGED <<draft, grants, intakeId>>
                /\ error' = (IF msg # "" THEN msg ELSE "Failed to create draft")
                /\ error' \in {"API /draft failed (500)", "Failed to create draft"} ]_vars

\* C9 witness: the error of a failed /draft call is shown next to the draft
\* an earlier createDraft had installed.
C9_Witness == error = "API /draft failed (500)" /\ draft # NullObj

\* C10: Draft can be clicked while the intake reference is null and the call
\* it issues carries intake_id null; the draft a successful answer installs
\* carries the requested grant's id; a questionnaire answer without an intake
\* id leaves the reference null and the search goes on to its second call
\* with no error.
C10_NullIntakeTolerated ==
    /\ [](\A g \in Listed : CanStart => ENABLED CreateDraftStart(g))
    /\ [][ /\ \A g \in GrantPool :
                 CreateDraftStart(g) =>
                     \E op \in BagToSet(inflight') :
                         /\ op.path = "/draft" /\ op.g = g
                         /\ op.body.intake_id = intakeId
                         /\ CopiesIn(op, inflight') = CopiesIn(op, inflight) + 1
           /\ \A op \in InFlight, d \in DraftResponses :
                 CreateDraftOk(op, d) /\ op.body.intake_id = Null =>
                     draft' # NullObj /\ draft'.grant.id = op.g.id /\ error' = error
           /\ \A op \in InFlight, q \in QuestionnaireResponses :
                 QuestionnaireOk(op, q) /\ ~Truthy(q.id) /\ ~Truthy(q.intake_id) =>
                     /\ intakeId' = Null
                     /\ error' = error /\ loading' = loading
                     /\ \E o \in BagToSet(inflight') : o.path = "/find-grants" ]_vars

\* C10 witness: a draft for g1 was installed and a /draft call carrying
\* intake_id null is in flight, the intake reference being null.
C10_Witness ==
    /\ intakeId = Null
    /\ draft # NullObj /\ draft.grant.id = "g1"
    /\ \E op \in InFlight : op.path = "/draft" /\ op.body.intake_id = Null

\* C11 as claimed: of the candidate fields of an answer the first that is
\* present wins, an empty string included: id before intake_id (else null),
\* top before items (else empty), draft_id before id.
C11_FirstPresentWins ==
    [][ /\ \A op \in InFlight, q \in QuestionnaireResponses :
              QuestionnaireOk(op, q) =>
                  intakeId' = (IF q.id # Undefined THEN q.id
                               ELSE IF q.intake_id # Undefined THEN q.intake_id
                               ELSE Null)
        /\ \A op \in InFlight, g \in FindGrantsResponses :
              FindGrantsOk(op, g) =>
                  grants' = (IF g.top.has THEN g.top.val
                             ELSE IF g.items.has THEN g.items.val ELSE <<>>)
        /\ \A op \in InFlight, d \in DraftResponses :
              CreateDraftOk(op, d) =>
                  draft'.id = (IF d.draft_id # Undefined THEN d.draft_id ELSE d.id) ]_vars

\* C11 as amended: the first candidate field holding a truthy value wins, a
\* field that is absent or an empty string being passed over (an empty list
\* is truthy and wins): id before intake_id, else null; top before items,
\* else the empty list; draft_id before id, else whatever id reads as.
C11_FirstTruthyWins ==
    [][ /\ \A op \in InFlight, q \in QuestionnaireResponses :
              QuestionnaireOk(op, q) =>
                  intakeId' = (IF q.id \notin {Undefined, ""} THEN q.id
                               ELSE IF q.intake_id \notin {Undefined, ""} THEN q.intake_id
                               ELSE Null)
        /\ \A op \in InFlight, g \in FindGrantsResponses :
              FindGrantsOk(op, g) =>
                  grants' = (IF g.top.has THEN g.top.val
                             ELSE IF g.items.has THEN g.items.val ELSE <<>>)
        /\ \A op \in InFlight, d \in DraftResponses :
              CreateDraftOk(op, d) =>
                  draft'.id = (IF d.draft_id \notin {Undefined, ""} THEN d.draft_id
                               ELSE d.id) ]_vars

\* C11 witness: each value was read from its second candidate: the intake id
\* from intake_id, the list from items, the draft id from id.
C11_Witness ==
    /\ intakeId = "i2"
    /\ grants = <<G2>>
    /\ draft # NullObj /\ draft.id = "d2"

\* C12: when a search of the minimal App succeeds, the rows applied are the
\* rows of the answer (none when the answer has no list) and the status reads
\* "Found N item(s)" with N the number of those rows.
C12_FoundCount ==
    [][ \A op \in Pending, data \in ShortlistResponses :
            HandleFindOk(op, data) =>
                /\ results' = (IF data.results.has THEN data.results.val ELSE <<>>)
                /\ status' = (CASE Len(results') = 0 -> "Found 0 item(s)"
                                [] Len(results') = 1 -> "Found 1 item(s)"
                                [] Len(results') = 2 -> "Found 2 item(s)"
                                [] Len(results') = 3 -> "Found 3 item(s)"
                                [] OTHER -> "Found more item(s)") ]_vars

\* C12 witness: a three-row answer was applied and reported.
C12_Witness == status = "Found 3 item(s)" /\ Len(results) = 3

\* C13: Download PDF without a draft saves nothing; with a draft the body
\* saved is the draft's preview when that is non-empty, else the placeholder
\* letter with the organization typed ("Your Organization" when none) and the
\* title of the draft's grant; the export changes no cell of the component
\* and starts no call.
C13_Export ==
    [][ ExportPDF =>
          /\ UNCHANGED <<org, keywords, intakeId, grants, draft, loading, error,
                         payFor, paidDraftIds, inflight>>
          /\ IF draft = NullObj
             THEN saved' = saved
             ELSE saved'.body =
                    IF draft.preview # ""
                    THEN draft.preview
                    ELSE "Dear Review Committee,\n\nThis is a generated placeholder draft for "
                         \o (IF org = "" THEN "Your Organization" ELSE org)
                         \o " applying to: " \o draft.grant.title
                         \o ".\n\n[Insert problem statement, goals, outcomes, budget summary.]"
                         \o "\n\nSincerely,\n"
                         \o (IF org = "" THEN "Your Organization" ELSE org) ]_vars

\* C13 witness: a draft without preview was exported with no organization typed.
C13_Witness ==
    /\ draft # NullObj /\ draft.preview = "" /\ org = ""
    /\ saved # NullObj
    /\ saved.body = PlaceholderLetter("Your Organization", draft.grant.title)

\* C14: the answer of a /find-grants call is applied whenever it arrives,
\* whatever other searches are suspended or have completed before it: the
\* grant list after the step is the list of that answer, so of two overlapping
\* searches the one answered last decides the list; and an answer can arrive
\* for any suspended /find-grants call, in any order.
C14_LastResponseWins ==
    /\ [][ \A op \in InFlight, g \in FindGrantsResponses :
              FindGrantsOk(op, g) =>
                  grants' = (IF g.top.has THEN g.top.val
                             ELSE IF g.items.has THEN g.items.val ELSE <<>>) ]_vars
    /\ [](\A op \in InFlight, g \in FindGrantsResponses :
              op.path = "/find-grants" => ENABLED FindGrantsOk(op, g))

\* C14 witness: of two overlapping searches one has been answered and its
\* list applied while the other is still suspended.
C14_Witness == NumSearchesInFlight = 1 /\ grants = <<G2, G1>> /\ ~loading

\* C15: a search issues its calls one after the other and each once: a
\* /questionnaire call appears only by a click on Find Grants, one per click;
\* a /find-grants call appears only in the step in which a /questionnaire call
\* is answered successfully, in its place; a failure of either call ends the
\* search, removing the call and issuing none.
C15_SequentialSingleAttempt ==
    [][ /\ CallsTo(inflight', "/questionnaire") > CallsTo(inflight, "/questionnaire") =>
              /\ FindGrantsStart
              /\ CallsTo(inflight', "/questionnaire") = CallsTo(inflight, "/questionnaire") + 1
        /\ CallsTo(inflight', "/find-grants") > CallsTo(inflight, "/find-grants") =>
              /\ \E op \in InFlight, q \in QuestionnaireResponses : QuestionnaireOk(op, q)
              /\ CallsTo(inflight', "/find-grants") = CallsTo(inflight, "/find-grants") + 1
              /\ CallsTo(inflight', "/questionnaire") = CallsTo(inflight, "/questionnaire") - 1
              /\ error' = error
        /\ \A op \in InFlight, msg \in AllThrown :
              FindGrantsFail(op, msg) =>
                  /\ CallsTo(inflight', op.path) = CallsTo(inflight, op.path) - 1
                  /\ \A p \in {"/questionnaire", "/find-grants"} :
                         CallsTo(inflight', p) <= CallsTo(inflight, p) ]_vars

\* C15 witness: a search has ended at its failed questionnaire call, no
\* /find-grants call issued.
C15_Witness == error = "API /questionnaire failed (500)" /\ inflight = EmptyBag /\ ~loading

\* C16: every suspended call can be answered and can fail, and either way its
\* handler runs on; when no invocation is suspended any more loading is false
\* and Find Grants can be clicked; and with every call answered or failed,
\* loading never stays true for ever.
C16_LoadingReleased ==
    /\ [](inflight = EmptyBag => ~loading /\ ENABLED FindGrantsStart)
    /\ [](\A op \in InFlight :
            /\ op.path = "/questionnaire" =>
                 /\ \A q \in PlainQuestionnaireResponses : ENABLED QuestionnaireOk(op, q)
                 /\ \A msg \in Thrown(op.path) : ENABLED FindGrantsFail(op, msg)
            /\ op.path = "/find-grants" =>
                 /\ \A g \in FindGrantsResponses : ENABLED FindGrantsOk(op, g)
                 /\ \A msg \in Thrown(op.path) : ENABLED FindGrantsFail(op, msg)
            /\ op.path = "/draft" =>
                 /\ \A d \in PlainDraftResponses : ENABLED CreateDraftOk(op, d)
                 /\ \A msg \in Thrown(op.path) : ENABLED CreateDraftFail(op, msg))
    /\ (loading ~> ~loading)

\* C16 witness: after a failed search nothing is suspended and loading is off.
C16_Witness ==
    inflight = EmptyBag /\ ~loading /\ error = "API /find-grants failed (500)"

\* C17: loading is true in every state in which a search or a draft creation
\* is suspended at a call.
C17_LoadingWhileInFlight == inflight # EmptyBag => loading

\* C18: a grant of the list whose Payment button opened the modal is shown as
\* paid once the modal is confirmed: the identifier opened for it is the one
\* the list looks it up by, and after Mark as Paid every listed grant with that
\* payment target has its paid badge.
C18_PaidShownInList ==
    [][ /\ \A g \in Listed : OpenPay(GrantTarget(g)) => payFor'.id = ListId(g)
        /\ ConfirmPay =>
              \A g \in Listed : PayItem(GrantTarget(g)) = payFor => IsPaid(g)' ]_vars

\* C19: the paid markers change only in a step that confirms the modal, and
\* then by the id of the payment target alone; closing the modal, opening it,
\* a search, a draft creation and an export leave them as they are; confirming
\* and closing both leave no payment target.
C19_PaidFrame ==
    [][ /\ paidDraftIds' # paidDraftIds =>
              /\ payFor # NullObj
              /\ paidDraftIds' = paidDraftIds \cup {payFor.id}
              /\ payFor' = NullObj
              /\ UNCHANGED <<org, keywords, intakeId, grants, draft, loading, error,
                             inflight, saved>>
        /\ ClosePay => paidDraftIds' = paidDraftIds /\ payFor' = NullObj
        /\ ConfirmPay => payFor' = NullObj
        /\ \/ \E t \in PayTargets : OpenPay(t)
           \/ ExportPDF
           \/ FindGrantsStart
           \/ \E g \in Listed : CreateDraftStart(g)
           => paidDraftIds' = paidDraftIds ]_vars

\* C19 witness: a marker was added by a confirmation, the modal was opened
\* again on another target and a draft was exported, the marker still there.
C19_Witness ==
    /\ paidDraftIds = {"g1"}
    /\ payFor # NullObj /\ payFor.id = "unknown"
    /\ saved # NullObj
====
